---- MODULE Spec2Model ----
(***************************************************************************)
(* USB CDC audio frame receiver (scripts/usb_audio/receiver.py) and the    *)
(* player that renders its frames (scripts/usb_audio/play.py).             *)
(*                                                                         *)
(* The serial transport delivers a byte stream; AudioFrameReceiver        *)
(* accumulates it in `buffer` and receive_frame() extracts at most one     *)
(* frame per call:  magic(2) seq(2) length(2) payload(length) checksum(2), *)
(* all fields little-endian.  AudioPlayer.play() hands a frame to the      *)
(* audio stream or drops it; main() of play.py loops over both and flushes *)
(* the receiver's backlog when the estimated output latency is too high.   *)
(***************************************************************************)
EXTENDS Integers, Sequences, FiniteSets, TLC

(***************************************************************************)
(* Program constants                                                       *)
(***************************************************************************)
FRAME_MAGIC == 43605

FRAME_HEADER_SIZE == 6

CHECKSUM_SIZE == 2

\* frames_per_buffer of the stream AudioPlayer.start() opens
frames_per_buffer == 60

\* estimated_total = 60 * 4 in get_buffer_latency_ms
estimated_total == frames_per_buffer * 4

\* --rate and --max-latency when the command line leaves them out (5.0 ms)
DefaultRate == 48000

DefaultMaxLatency == 5

(***************************************************************************)
(* Bounds of the model                                                     *)
(***************************************************************************)
\* longest payload, in bytes, of a generated frame
MaxPayloadLen == 2

\* longest run of noise bytes put in front of a frame
MaxNoise == 2

\* byte values payloads are drawn from (0x01, 0x55, 0xAA: the last two are
\* the two bytes of the magic)
PayloadBytes == {1, 85, 170}

\* byte values noise is drawn from
NoiseBytes == {0, 85, 170}

\* sequence numbers frames are drawn from
SeqVals == {0, 5, 9, 65535}

\* sequence numbers of the frame that gets corrupted (its neighbours then
\* carry 65534 and 0)
FlipSeqVals == {65535}

\* byte values the payload of the frame that gets corrupted is drawn from
FlipPayloadBytes == {85, 170}

\* payloads of the intact frames before and after a corrupted one
PrePayload == <<>>

PostPayload == <<1, 0>>

\* most samples of a frame handed to play() on its own
MaxSamples == 2

\* most play() calls made on a player on its own
MaxPlays == 2

\* flush_backlog() is called on its own while it has cut fewer frames
MaxCut == 1

\* the last second the clock of the playback loop reaches
MaxTime == 3

\* sample values of the frames handed to play() on its own
SampleVals == {-1}

\* what stream.get_write_available() answers, in frames
AvailValues == {0, 1, 2, 4, 300}

\* sample rates given with --rate
Rates == {DefaultRate, 24000}

(***************************************************************************)
(* Byte-level helpers                                                      *)
(***************************************************************************)
RECURSIVE Sum(_)
Sum(s) == IF s = <<>> THEN 0 ELSE Head(s) + Sum(Tail(s))

Drop(s, n) == SubSeq(s, n + 1, Len(s))

Take(s, n) == SubSeq(s, 1, n)

\* struct.unpack('<H', b[i:i+2]) with i 1-based
U16(b, i) == b[i] + 256 * b[i + 1]

\* struct.pack('<H', v)
P16(v) == <<v % 256, (v \div 256) % 256>>

SeqsUpTo(S, n) == UNION {[1..m -> S] : m \in 0..n}

(***************************************************************************)
(* The wire format, as the sender produces it                              *)
(***************************************************************************)
Encode(seq, payload) ==
    LET body == P16(FRAME_MAGIC) \o P16(seq) \o P16(Len(payload)) \o payload
    IN  body \o P16(Sum(body) % 65536)

\* byte b with bit k inverted
FlipBit(b, k) ==
    IF (b \div (2 ^ k)) % 2 = 1 THEN b - 2 ^ k ELSE b + 2 ^ k

\* frame bytes with bit `bit` of byte `byte` (0-based) inverted
Corrupt(bytes, byte, bit) ==
    [i \in 1..Len(bytes) |->
        IF i = byte + 1 THEN FlipBit(bytes[i], bit) ELSE bytes[i]]

(***************************************************************************)
(* State                                                                   *)
(***************************************************************************)
VARIABLES
    ser,         \* self.ser: TRUE once open() has returned a serial port
    wire,        \* bytes the transport has still to deliver, in order
    buffer,      \* self.buffer: the receive backlog
    stats,       \* self.stats
    result,      \* what the last receive_frame() call returned or raised
    path,        \* the return statement the last receive_frame() call left by
    frame_data,  \* frame_data of the last call (<<>> if it extracted none)
    sent,        \* the stream the sender put on the wire (never changes)
    returned,    \* payloads (as bytes) returned so far, in order
    extracted,   \* bytes removed from the backlog as frames so far
    flushed,     \* bytes flush_backlog() has removed from the backlog
    cut,         \* the frames of the stream (by index) that have lost a
                 \* byte to such a removal
    args,        \* the command line of play.py: rate and max_latency
    player,      \* the AudioPlayer: sample_rate, max_buffer_frames, stream
                 \* (TRUE once start() has opened it) and frames_dropped
    writes,      \* calls of stream.write() so far
    call,        \* the last play() call: its frame, what the stream
                 \* answered and what play() returned
    buffer_latency_ms,  \* what the last get_buffer_latency_ms() returned
    main,        \* main(): frame_count, last_stats_time and what the
                 \* last pass of its loop did
    now          \* time.time(), in whole seconds

\* the receiver and the transport
rvars == <<ser, wire, buffer, stats, result, path, frame_data, sent,
           returned, extracted, flushed, cut>>

\* the player and main()
pvars == <<args, player, writes, call, buffer_latency_ms, main, now>>

vars == <<ser, wire, buffer, stats, result, path, frame_data, sent,
          returned, extracted, flushed, cut, args, player, writes, call,
          buffer_latency_ms, main, now>>

\* a return value: None, an array of int16 samples, or a raised exception
None == [kind |-> "None", samples |-> <<>>]

Samples(a) == [kind |-> "frame", samples |-> a]

ValueError == [kind |-> "ValueError", samples |-> <<>>]

(***************************************************************************)
(* AudioFrameReceiver                                                      *)
(***************************************************************************)
\* self.stats after __init__; last_seq is <<>> for None and <<s>> for s
InitStats ==
    [frames_received |-> 0, frames_dropped |-> 0, checksum_errors |-> 0,
     sync_errors |-> 0, bytes_received |-> 0, last_seq |-> <<>>]

\* mutant: skipped bytes are not counted
RECURSIVE find_sync_uncounted(_, _)
find_sync_uncounted(buf, st) ==
    IF Len(buf) >= 2
    THEN IF U16(buf, 1) = FRAME_MAGIC
         THEN [found |-> TRUE, buffer |-> buf, stats |-> st]
         ELSE find_sync_uncounted(Tail(buf), st)
    ELSE [found |-> FALSE, buffer |-> buf, stats |-> st]

\* _find_sync: drop bytes, counting each, until the buffer starts with the
\* magic or holds fewer than two bytes
RECURSIVE find_sync(_, _)
find_sync(buf, st) ==
    IF Len(buf) >= 2
    THEN IF U16(buf, 1) = FRAME_MAGIC
         THEN [found |-> TRUE, buffer |-> buf, stats |-> st]
         ELSE find_sync(Tail(buf), [st EXCEPT !.sync_errors = @ + 1])
    ELSE [found |-> FALSE, buffer |-> buf, stats |-> st]

\* mutant: the checksum kept to one byte
calculate_checksum_8bit(data) == Sum(data) % 256

\* _calculate_checksum
calculate_checksum(data) == Sum(data) % 65536

\* mutant: the frame size leaves out the checksum
FrameSize_no_checksum(length) == FRAME_HEADER_SIZE + length

\* frame_size = FRAME_HEADER_SIZE + length + CHECKSUM_SIZE
FrameSize(length) == FRAME_HEADER_SIZE + length + CHECKSUM_SIZE

\* mutant: the checksum is never compared
ChecksumMismatch_never(frame) == FALSE

\* received_checksum != calculated_checksum
ChecksumMismatch(frame) ==
    LET n == Len(frame) - CHECKSUM_SIZE
    IN  U16(frame, n + 1) # calculate_checksum(Take(frame, n))

\* mutant: the checksum error is not counted
ChecksumFailed_uncounted(st) == st

\* mutant: the checksum error also counts a dropped frame
ChecksumFailed_as_gap(st) ==
    [st EXCEPT !.checksum_errors = @ + 1, !.frames_dropped = @ + 1]

\* the checksum error branch: count it and nothing else
ChecksumFailed(st) == [st EXCEPT !.checksum_errors = @ + 1]

\* mutant: the difference is not reduced to 16 bits
SeqDropped_unmasked(last, seq_num) ==
    LET expected_seq == (last + 1) % 65536
    IN  IF seq_num # expected_seq THEN seq_num - expected_seq ELSE 0

\* dropped = (seq_num - expected_seq) & 0xFFFF, when seq_num is not expected
SeqDropped(last, seq_num) ==
    LET expected_seq == (last + 1) % 65536
    IN  IF seq_num # expected_seq THEN (seq_num - expected_seq) % 65536 ELSE 0

\* sequence continuity check, then last_seq and frames_received
Accept(st, seq_num) ==
    [st EXCEPT
        !.frames_dropped =
            IF st.last_seq # <<>> THEN @ + SeqDropped(st.last_seq[1], seq_num)
            ELSE @,
        !.last_seq = <<seq_num>>,
        !.frames_received = @ + 1]

\* np.frombuffer(audio_data, dtype=np.int16) raises ValueError when the
\* buffer size is not a multiple of the element size
frombuffer_raises(audio_data) == Len(audio_data) % 2 # 0

\* np.frombuffer(audio_data, dtype=np.int16): little-endian signed samples
frombuffer(audio_data) ==
    [i \in 1..(Len(audio_data) \div 2) |->
        LET u == U16(audio_data, 2 * i - 1)
        IN  IF u >= 32768 THEN u - 65536 ELSE u]

\* ndarray.tobytes() of an int16 array
tobytes(samples) ==
    [i \in 1..(2 * Len(samples)) |->
        LET v == samples[(i + 1) \div 2]
            u == IF v < 0 THEN v + 65536 ELSE v
        IN  IF i % 2 = 1 THEN u % 256 ELSE u \div 256]

Ret(buf, st, res, p, fd) ==
    [buffer |-> buf, stats |-> st, result |-> res, path |-> p,
     frame_data |-> fd]

\* receive_frame from "Find sync marker" on, applied to backlog buf
Extract(buf, st) ==
    LET s == find_sync(buf, st)
    IN  IF ~s.found THEN Ret(s.buffer, s.stats, None, "no_sync", <<>>)
        ELSE IF Len(s.buffer) < FRAME_HEADER_SIZE
        THEN Ret(s.buffer, s.stats, None, "short_header", <<>>)
        ELSE
        LET seq_num == U16(s.buffer, 3)
            length == U16(s.buffer, 5)
            frame_size == FrameSize(length)
        IN  IF Len(s.buffer) < frame_size
            THEN Ret(s.buffer, s.stats, None, "short_frame", <<>>)
            ELSE
            LET frame == Take(s.buffer, frame_size)
                rest == Drop(s.buffer, frame_size)
                audio_data ==
                    SubSeq(frame, FRAME_HEADER_SIZE + 1,
                           Len(frame) - CHECKSUM_SIZE)
            IN  IF ChecksumMismatch(frame)
                THEN Ret(rest, ChecksumFailed(s.stats), None,
                         "bad_checksum", frame)
                ELSE IF frombuffer_raises(audio_data)
                THEN Ret(rest, Accept(s.stats, seq_num), ValueError,
                         "raised", frame)
                ELSE Ret(rest, Accept(s.stats, seq_num),
                         Samples(frombuffer(audio_data)), "frame", frame)

(***************************************************************************)
(* AudioPlayer                                                             *)
(***************************************************************************)
\* a float that is a quotient of two integers, den > 0; the quotients and
\* thresholds of the player differ by far more than a rounding error, so
\* that comparing them exactly is comparing the floats
Ratio(n, d) == [num |-> n, den |-> d]

Greater(a, b) == a.num * b.den > b.num * a.den

Zero == Ratio(0, 1)

\* what stream.get_write_available() did: answered `available` frames, or
\* raised (ok = FALSE); asked = FALSE when it was not called
Answer(n) == [asked |-> TRUE, ok |-> TRUE, available |-> n]

Raised == [asked |-> TRUE, ok |-> FALSE, available |-> 0]

NotAsked == [asked |-> FALSE, ok |-> FALSE, available |-> 0]

Answers == {Answer(n) : n \in AvailValues} \cup {Raised}

\* int(x) of a quotient that is not negative
IntOf(x) == x.num \div x.den

\* AudioPlayer.__init__
AudioPlayer(sample_rate, max_buffer_ms) ==
    [sample_rate |-> sample_rate,
     max_buffer_frames |->
        IntOf(Ratio(sample_rate * max_buffer_ms.num,
                    max_buffer_ms.den * 1000)),
     stream |-> FALSE,
     frames_dropped |-> 0]

\* mutant: the difference is not kept from going negative
Queued_unclamped(available) == estimated_total - available

\* queued = max(0, estimated_total - available)
Queued(available) ==
    IF estimated_total - available > 0 THEN estimated_total - available
    ELSE 0

\* mutant: a failed query is taken for a full buffer
get_buffer_latency_ms_fail_closed(p, answer) ==
    IF ~p.stream THEN Zero
    ELSE IF ~answer.ok THEN Ratio(estimated_total * 1000, p.sample_rate)
    ELSE Ratio(Queued(answer.available) * 1000, p.sample_rate)

\* get_buffer_latency_ms, the stream answering `answer`
get_buffer_latency_ms(p, answer) ==
    IF ~p.stream THEN Zero
    ELSE IF ~answer.ok THEN Zero
    ELSE Ratio(Queued(answer.available) * 1000, p.sample_rate)

\* mutant: the room is compared with the sample count itself
Saturated_one_frame(available, audio_data) == available < Len(audio_data)

\* available < len(audio_data) * 2
Saturated(available, audio_data) == available < Len(audio_data) * 2

\* mutant: the dropped frame is not counted
Dropped_uncounted(p) == p

\* self.frames_dropped += 1
Dropped(p) == [p EXCEPT !.frames_dropped = @ + 1]

\* the player, the number of stream.write() calls and the record of the
\* call that play() leaves
Played(p, w, c, audio_data, answer, write, played) ==
    [player |-> p, writes |-> w,
     call |-> [plays |-> c.plays + 1, frame |-> audio_data,
               answer |-> answer, write |-> write,
               written |-> IF write = "not_called" THEN <<>>
                           ELSE tobytes(audio_data),
               played |-> played]]

\* mutant: a frame is written although the stream is saturated
play_ignoring_saturation(p, w, c, audio_data, drop_if_buffer_full, answer,
                         write_ok) ==
    LET seen == IF drop_if_buffer_full THEN answer ELSE NotAsked
    IN  IF ~p.stream
        THEN Played(p, w, c, audio_data, NotAsked, "not_called", FALSE)
        ELSE IF write_ok
        THEN Played(p, w + 1, c, audio_data, seen, "ok", TRUE)
        ELSE Played(Dropped(p), w + 1, c, audio_data, seen, "raised", FALSE)

\* play(audio_data, drop_if_buffer_full): get_write_available() answers
\* `answer`, and stream.write(), if it is reached, succeeds iff write_ok
play(p, w, c, audio_data, drop_if_buffer_full, answer, write_ok) ==
    LET seen == IF drop_if_buffer_full THEN answer ELSE NotAsked
    IN  IF ~p.stream
        THEN Played(p, w, c, audio_data, NotAsked, "not_called", FALSE)
        ELSE IF /\ drop_if_buffer_full
                /\ answer.ok
                /\ Saturated(answer.available, audio_data)
        THEN Played(Dropped(p), w, c, audio_data, seen, "not_called", FALSE)
        ELSE IF write_ok
        THEN Played(p, w + 1, c, audio_data, seen, "ok", TRUE)
        ELSE Played(Dropped(p), w + 1, c, audio_data, seen, "raised", FALSE)

\* no play() call yet
NoCall ==
    [plays |-> 0, frame |-> <<>>, answer |-> NotAsked, write |-> "not_called",
     written |-> <<>>, played |-> FALSE]

(***************************************************************************)
(* The streams the sender puts on the wire                                 *)
(***************************************************************************)
Frames == [seq : SeqVals, payload : SeqsUpTo(PayloadBytes, MaxPayloadLen)]

\* the wire format requires an even payload length
WellFormed(f) == Len(f.payload) % 2 = 0

Scenario(k, n, fs, bad, byte, bit) ==
    [kind |-> k, noise |-> n, frames |-> fs, bad |-> bad, byte |-> byte,
     bit |-> bit]

\* noise, then one frame
OneScenarios ==
    {Scenario("one", n, <<f>>, 0, 0, 0) :
        n \in SeqsUpTo(NoiseBytes, MaxNoise), f \in Frames}

\* two frames back to back, with any two sequence numbers
TwoScenarios ==
    {Scenario("two", <<>>, <<f, g>>, 0, 0, 0) :
        f \in Frames,
        g \in [seq : SeqVals, payload : {PrePayload, PostPayload}]}

Pad(seq, payload) == [seq |-> seq % 65536, payload |-> payload]

\* a well-formed frame with one bit of its header or payload inverted,
\* alone or between the frames with the previous and the next sequence
\* number
FlipScenarios ==
    UNION {
        {Scenario("flip", <<>>, <<f>>, 1, byte, bit),
         Scenario("flip", <<>>,
                  <<Pad(f.seq - 1, PrePayload), f,
                    Pad(f.seq + 1, PostPayload)>>, 2, byte, bit)} :
        <<f, byte, bit>> \in
            {x \in Frames \X (0..(FRAME_HEADER_SIZE + MaxPayloadLen - 1))
                          \X (0..7) :
                /\ x[1].seq \in FlipSeqVals
                /\ \A i \in 1..Len(x[1].payload) :
                        x[1].payload[i] \in FlipPayloadBytes
                /\ WellFormed(x[1])
                /\ x[2] < FRAME_HEADER_SIZE + Len(x[1].payload)}}

Scenarios == OneScenarios \cup TwoScenarios \cup FlipScenarios

\* the bytes of frame i of scenario sc as they go on the wire
WireFrame(sc, i) ==
    LET bytes == Encode(sc.frames[i].seq, sc.frames[i].payload)
    IN  IF i = sc.bad THEN Corrupt(bytes, sc.byte, sc.bit) ELSE bytes

RECURSIVE WireFrames(_, _)
WireFrames(sc, i) ==
    IF i > Len(sc.frames) THEN <<>>
    ELSE WireFrame(sc, i) \o WireFrames(sc, i + 1)

Stream(sc) == sc.noise \o WireFrames(sc, 1)

(***************************************************************************)
(* Initial state: a constructed receiver, the stream not yet delivered,    *)
(* and a constructed player that has not been started                      *)
(***************************************************************************)
\* the command line without --rate and --max-latency
DefaultArgs ==
    [rate |-> DefaultRate, max_latency |-> Ratio(DefaultMaxLatency, 1)]

\* thresholds given with --max-latency: 5.0 and 2.5
MaxLatencies == {Ratio(DefaultMaxLatency, 1), Ratio(DefaultMaxLatency, 2)}

ArgsSet == [rate : Rates, max_latency : MaxLatencies]

\* main() before its loop: frame_count = 0, last_stats_time = 0; nothing
\* done and no latency measured yet.  The clock starts at second 1.
BeforeLoop ==
    [frame_count |-> 0, last_stats_time |-> 0, did |-> "init",
     measured_at |-> 1]

StartWith(scenarios, argset) ==
    /\ sent \in scenarios
    /\ wire = Stream(sent)
    /\ ser = FALSE
    /\ buffer = <<>>
    /\ stats = InitStats
    /\ result = None
    /\ path = "init"
    /\ frame_data = <<>>
    /\ returned = <<>>
    /\ extracted = 0
    /\ flushed = 0
    /\ cut = {}
    /\ args \in argset
    /\ player = AudioPlayer(args.rate, args.max_latency)
    /\ writes = 0
    /\ call = NoCall
    /\ buffer_latency_ms = Zero
    /\ main = BeforeLoop
    /\ now = 1

\* the command line says neither --rate nor --max-latency
Start(scenarios) == StartWith(scenarios, {DefaultArgs})

Init == Start(Scenarios)

InitOne == Start(OneScenarios)

InitTwo == Start(TwoScenarios)

InitFlip == Start(FlipScenarios)

(***************************************************************************)
(* Operations                                                              *)
(***************************************************************************)
\* open() succeeds: the port is open and its input buffer is empty
Open ==
    /\ ~ser
    /\ ser' = TRUE
    /\ UNCHANGED <<wire, buffer, stats, result, path, frame_data, sent,
                   returned, extracted, flushed, cut>>
    /\ UNCHANGED pvars

\* the part of receive_frame() after the serial read, the port left
\* holding w: what the call leaves behind
Parse(w, buf, st) ==
    LET r == Extract(buf, st)
    IN  [wire |-> w, buffer |-> r.buffer, stats |-> r.stats,
         result |-> r.result, path |-> r.path, frame_data |-> r.frame_data,
         returned |-> IF r.result.kind = "frame"
                      THEN Append(returned, tobytes(r.result.samples))
                      ELSE returned,
         extracted |-> extracted + Len(r.frame_data)]

\* what receive_frame() leaves behind when in_waiting bytes wait in the
\* serial port
Received(in_waiting) ==
    IF ser
    THEN IF in_waiting > 0
         THEN Parse(Drop(wire, in_waiting),
                    buffer \o Take(wire, in_waiting),
                    [stats EXCEPT !.bytes_received = @ + in_waiting])
         ELSE [wire |-> wire, buffer |-> buffer, stats |-> stats,
               result |-> None, path |-> "no_data", frame_data |-> <<>>,
               returned |-> returned, extracted |-> extracted]
    ELSE Parse(wire, buffer, stats)

\* the receiver and the transport are as call r leaves them
Leaves(r) ==
    /\ wire' = r.wire
    /\ buffer' = r.buffer
    /\ stats' = r.stats
    /\ result' = r.result
    /\ path' = r.path
    /\ frame_data' = r.frame_data
    /\ returned' = r.returned
    /\ extracted' = r.extracted

\* receive_frame() with in_waiting bytes waiting in the serial port.  An
\* exception it raised has ended the program.
receive_frame(in_waiting) ==
    /\ path # "raised"
    /\ Leaves(Received(in_waiting))
    /\ UNCHANGED <<ser, sent, flushed, cut>>

ReceiveFrame ==
    /\ \E in_waiting \in 0..(IF ser THEN Len(wire) ELSE 0) :
            receive_frame(in_waiting)
    /\ UNCHANGED pvars

Next == Open \/ ReceiveFrame

\* every stream
Spec == Init /\ [][Next]_vars

\* the same receiver on one kind of stream each
SpecOne == InitOne /\ [][Next]_vars

SpecTwo == InitTwo /\ [][Next]_vars

SpecFlip == InitFlip /\ [][Next]_vars

(***************************************************************************)
(* flush_backlog                                                           *)
(***************************************************************************)
\* bytes of frame i on the wire
WireSize(i) == FrameSize(Len(sent.frames[i].payload))

\* bytes of the stream in front of frame i
RECURSIVE FrameStart(_)
FrameStart(i) ==
    IF i = 1 THEN Len(sent.noise)
    ELSE FrameStart(i - 1) + WireSize(i - 1)

\* positions in the stream (1-based) of frame i
FramePositions(i) == (FrameStart(i) + 1)..(FrameStart(i) + WireSize(i))

\* positions in the stream of the bytes of backlog buf when the transport
\* still holds w: the backlog is the end of what has been read
Positions(w, buf) ==
    LET read == FrameStart(Len(sent.frames) + 1) - Len(w)
    IN  (read - Len(buf) + 1)..read

\* the frames that have a byte in backlog buf
FramesIn(w, buf) ==
    {i \in 1..Len(sent.frames) : FramePositions(i) \cap Positions(w, buf) # {}}

\* what flush_backlog() leaves behind
Flushed(w, buf, st, n, c) ==
    [wire |-> w, buffer |-> buf, stats |-> st, flushed |-> n, cut |-> c]

\* mutant: only the serial port is reset, the backlog is kept
flush_backlog_port_only(w, buf, st, pending) ==
    Flushed(IF ser THEN Drop(w, pending) ELSE w, buf, st,
            flushed + Len(buf), cut \cup FramesIn(w, buf))

\* mutant: the flush also forgets the last sequence number
flush_backlog_new_session(w, buf, st, pending) ==
    Flushed(IF ser THEN Drop(w, pending) ELSE w, <<>>,
            [st EXCEPT !.last_seq = <<>>],
            flushed + Len(buf), cut \cup FramesIn(w, buf))

\* mutant: the flush starts the statistics again
flush_backlog_new_stats(w, buf, st, pending) ==
    Flushed(IF ser THEN Drop(w, pending) ELSE w, <<>>,
            [InitStats EXCEPT !.last_seq = st.last_seq],
            flushed + Len(buf), cut \cup FramesIn(w, buf))

\* mutant: the flushed bytes are taken back out of bytes_received
flush_backlog_uncounting(w, buf, st, pending) ==
    Flushed(IF ser THEN Drop(w, pending) ELSE w, <<>>,
            [st EXCEPT !.bytes_received = @ - Len(buf)],
            flushed + Len(buf), cut \cup FramesIn(w, buf))

\* flush_backlog() on backlog buf and statistics st, the transport holding
\* w: the backlog is cleared, and reset_input_buffer() discards the
\* `pending` bytes that wait in the serial port
flush_backlog(w, buf, st, pending) ==
    Flushed(IF ser THEN Drop(w, pending) ELSE w, <<>>, st,
            flushed + Len(buf), cut \cup FramesIn(w, buf))

\* a flush_backlog() call between two receive_frame() calls
FlushBacklog ==
    /\ path # "raised"
    /\ Cardinality(cut) < MaxCut
    /\ \E pending \in 0..(IF ser THEN Len(wire) ELSE 0) :
            LET f == flush_backlog(wire, buffer, stats, pending)
            IN  /\ wire' = f.wire
                /\ buffer' = f.buffer
                /\ stats' = f.stats
                /\ flushed' = f.flushed
                /\ cut' = f.cut
    /\ UNCHANGED <<ser, result, path, frame_data, sent, returned, extracted>>
    /\ UNCHANGED pvars

\* one frame behind a run of 0x55 bytes, or three frames of which the
\* second may have a bit of its sequence number inverted
CutScenarios ==
    {Scenario("one", n, <<f>>, 0, 0, 0) :
        n \in SeqsUpTo({85}, MaxNoise),
        f \in [seq : {5}, payload : SeqsUpTo(FlipPayloadBytes, MaxPayloadLen)]}
    \cup
    {Scenario("three", <<>>, <<Pad(5, PrePayload), Pad(6, PrePayload), h>>,
              bad, 2, 0) :
        bad \in {0, 2}, h \in [seq : {9}, payload : {PrePayload}]}

InitCut == Start(CutScenarios)

NextCut == Open \/ ReceiveFrame \/ FlushBacklog

\* the receiver with flush_backlog() called at any time
SpecCut == InitCut /\ [][NextCut]_vars

(***************************************************************************)
(* The player on its own                                                   *)
(***************************************************************************)
\* start(): the audio stream is open
start ==
    /\ ~player.stream
    /\ player' = [player EXCEPT !.stream = TRUE]
    /\ UNCHANGED <<args, writes, call, buffer_latency_ms, main, now>>
    /\ UNCHANGED rvars

\* frames handed to play()
PlayFrames == SeqsUpTo(SampleVals, MaxSamples)

\* a play() call
Play ==
    /\ call.plays < MaxPlays
    /\ \E audio_data \in PlayFrames, drop_if_buffer_full \in BOOLEAN,
          answer \in Answers, write_ok \in BOOLEAN :
            LET r == play(player, writes, call, audio_data,
                          drop_if_buffer_full, answer, write_ok)
            IN  /\ player' = r.player
                /\ writes' = r.writes
                /\ call' = r.call
    /\ UNCHANGED <<args, buffer_latency_ms, main, now>>
    /\ UNCHANGED rvars

\* a get_buffer_latency_ms() call
GetBufferLatency ==
    /\ \E answer \in Answers :
            buffer_latency_ms' = get_buffer_latency_ms(player, answer)
    /\ UNCHANGED <<args, player, writes, call, main, now>>
    /\ UNCHANGED rvars

\* a player made for any rate and threshold; the transport is silent
InitPlayer == StartWith({Scenario("none", <<>>, <<>>, 0, 0, 0)}, ArgsSet)

NextPlayer == start \/ Play \/ GetBufferLatency

SpecPlayer == InitPlayer /\ [][NextPlayer]_vars

(***************************************************************************)
(* main() of play.py                                                       *)
(***************************************************************************)
\* what the stream answers in the loop
LoopAnswers == {Answer(0), Answer(300), Raised}

\* current_time - last_stats_time >= 1.0
StatsDue(current_time, last_stats_time) ==
    current_time - last_stats_time >= 1

\* the rest of a pass of the loop in which receive_frame() left r and
\* returned a frame, and which ends at current_time: the stream answers
\* latency_answer to get_buffer_latency_ms() and play_answer to play(), and
\* stream.write() succeeds iff write_ok
Frame(r, current_time, latency_answer, play_answer, write_ok) ==
    LET latency == get_buffer_latency_ms(player, latency_answer)
        p == play(player, writes, call, r.result.samples, TRUE, play_answer,
                  write_ok)
        due == StatsDue(current_time, main.last_stats_time)
        flush == due /\ Greater(latency, args.max_latency)
    IN  /\ buffer_latency_ms' = latency
        /\ player' = p.player
        /\ writes' = p.writes
        /\ call' = p.call
        /\ main' =
              [frame_count |->
                  IF p.call.played THEN main.frame_count + 1
                  ELSE main.frame_count,
               last_stats_time |->
                  IF due THEN current_time ELSE main.last_stats_time,
               did |-> IF flush THEN "flush"
                       ELSE IF due THEN "stats" ELSE "played",
               measured_at |-> current_time]
        /\ IF flush
           THEN \E pending \in 0..Len(r.wire) :
                    LET f == flush_backlog(r.wire, r.buffer, r.stats, pending)
                    IN  /\ Leaves([r EXCEPT !.wire = f.wire,
                                            !.buffer = f.buffer,
                                            !.stats = f.stats])
                        /\ flushed' = f.flushed
                        /\ cut' = f.cut
           ELSE /\ Leaves(r)
                /\ UNCHANGED <<flushed, cut>>

\* the rest of a pass in which receive_frame() left r and returned None
\* (the loop sleeps) or raised (the exception leaves the loop)
NoFrame(r) ==
    /\ Leaves(r)
    /\ main' = [main EXCEPT
                  !.did = IF r.result.kind = "None" THEN "idle" ELSE "raised"]
    /\ UNCHANGED <<flushed, cut, buffer_latency_ms, player, writes, call>>

\* one pass of the loop, which takes dt seconds and in which
\* receive_frame() finds in_waiting bytes in the port
Pass(in_waiting, dt) ==
    LET r == Received(in_waiting)
    IN  /\ now' = now + dt
        /\ IF r.result.kind = "frame"
           THEN \E latency_answer \in LoopAnswers,
                   play_answer \in LoopAnswers, write_ok \in BOOLEAN :
                    Frame(r, now + dt, latency_answer, play_answer, write_ok)
           ELSE NoFrame(r)
        /\ UNCHANGED <<ser, sent, args>>

\* the loop runs once the port is open and the player started, until an
\* exception leaves it
Loop ==
    /\ ser
    /\ player.stream
    /\ main.did # "raised"
    /\ \E in_waiting \in 0..Len(wire), dt \in {0, 1} :
            /\ now + dt <= MaxTime
            /\ Pass(in_waiting, dt)

\* player.start() follows receiver.open()
StartPlayer == ser /\ start

\* the streams played: one frame; a noise byte and two frames with a gap
\* between their sequence numbers; two frames of which the first has a
\* payload bit inverted
PlayScenarios ==
    {Scenario("one", <<>>, <<f>>, 0, 0, 0) :
        f \in [seq : {5}, payload : SeqsUpTo({1}, MaxPayloadLen)]}
    \cup
    {Scenario("two", <<0>>, <<Pad(5, PostPayload), Pad(9, PostPayload)>>,
              0, 0, 0),
     Scenario("two", <<>>, <<Pad(5, PostPayload), Pad(6, PrePayload)>>,
              1, FRAME_HEADER_SIZE, 0)}

\* play.py run with any --rate and the default --max-latency
PlayArgs == {a \in ArgsSet : a.max_latency = DefaultArgs.max_latency}

InitPlay == StartWith(PlayScenarios, PlayArgs)

NextPlay == Open \/ StartPlayer \/ Loop

SpecPlay == InitPlay /\ [][NextPlay]_vars

(***************************************************************************)
(* Properties                                                              *)
(***************************************************************************)
\* the only frame of a one-frame stream
TheFrame == sent.frames[1]

\* a one-frame stream without noise whose frame is well formed
CleanOne == sent.kind = "one" /\ sent.noise = <<>> /\ WellFormed(TheFrame)

NoErrors ==
    /\ stats.frames_dropped = 0
    /\ stats.checksum_errors = 0
    /\ stats.sync_errors = 0

\* C1 (round trip): once a fresh receiver has read exactly the bytes of one
\* encoded frame with an even payload length, it has returned exactly that
\* payload, byte for byte, frames_received is 1 and every error counter is
\* 0; the call that returns it returns the payload's samples.
C1_RoundTrip ==
    CleanOne =>
        /\ wire = <<>> =>
              /\ returned = <<TheFrame.payload>>
              /\ stats.frames_received = 1
              /\ NoErrors
        /\ path = "frame" =>
              /\ wire = <<>>
              /\ tobytes(result.samples) = TheFrame.payload

C1_Witness ==
    /\ CleanOne
    /\ TheFrame.payload = <<85, 170>>
    /\ TheFrame.seq = 65535
    /\ path = "frame"
    /\ stats.bytes_received = 10
    /\ returned = <<<<85, 170>>>>

\* s holds run as a contiguous run of bytes
IsRunOf(run, s) ==
    \E o \in 0..(Len(s) - Len(run)) : SubSeq(s, o + 1, o + Len(run)) = run

\* C2: whenever receive_frame returns samples, they are the payload of a
\* frame-sized run of the received bytes that begins with the magic and
\* whose last two bytes are the 16-bit sum of its other bytes; a run whose
\* checksum does not match is never returned.
C2_OnlyValidFramesReturned ==
    /\ result.kind = "frame" =>
          LET n == Len(frame_data)
          IN  /\ n >= FRAME_HEADER_SIZE + CHECKSUM_SIZE
              /\ n = FRAME_HEADER_SIZE + U16(frame_data, 5) + CHECKSUM_SIZE
              /\ frame_data[1] = 85 /\ frame_data[2] = 170
              /\ U16(frame_data, n - 1) = Sum(Take(frame_data, n - 2)) % 65536
              /\ tobytes(result.samples) = SubSeq(frame_data, 7, n - 2)
              /\ IsRunOf(frame_data, Stream(sent))
              /\ returned # <<>>
              /\ returned[Len(returned)] = tobytes(result.samples)
    /\ path = "bad_checksum" => result = None
    /\ Len(returned) = stats.frames_received

C2_Witness ==
    /\ sent.kind = "flip"
    /\ result.kind = "frame"
    /\ stats.checksum_errors = 1
    /\ returned = <<PrePayload, PostPayload>>

\* no two adjacent bytes of s are the magic (0x55 then 0xAA)
NoMagic(s) == \A i \in 1..(Len(s) - 1) : ~(s[i] = 85 /\ s[i + 1] = 170)

\* C3 (resync): when noise of length N holding no magic, also not across
\* the boundary to the frame, precedes one valid frame, the receiver
\* returns that frame's payload once all bytes are read, and sync_errors is
\* exactly N once the frame is returned.
C3_Resync ==
    (/\ sent.kind = "one"
     /\ WellFormed(TheFrame)
     /\ NoMagic(sent.noise \o <<85>>)) =>
        /\ wire = <<>> => returned = <<TheFrame.payload>>
        /\ returned # <<>> =>
              /\ returned = <<TheFrame.payload>>
              /\ stats.sync_errors = Len(sent.noise)
        /\ stats.sync_errors <= Len(sent.noise)

C3_Witness ==
    /\ sent.kind = "one"
    /\ sent.noise = <<170, 85>>
    /\ TheFrame.payload = <<85, 170>>
    /\ returned = <<<<85, 170>>>>
    /\ stats.sync_errors = 2

\* the corrupted frame of a flip stream, as it is on the wire
BadBytes == WireFrame(sent, sent.bad)

\* the corrupted frame is the whole stream
FlipAlone == sent.kind = "flip" /\ Len(sent.frames) = 1

\* the corrupted frame lies between two intact frames
FlipBetween == sent.kind = "flip" /\ Len(sent.frames) = 3

\* the inverted bit lies in the seq field or in the payload, so that the
\* magic and the length field are intact
FlipInSeqOrPayload == sent.byte \in {2, 3} \/ sent.byte >= FRAME_HEADER_SIZE

FlipInPayload == sent.byte >= FRAME_HEADER_SIZE

\* the receiver has read the whole corrupted frame, nothing was returned,
\* one checksum error is counted and last_seq is still unset
RejectedAlone ==
    wire = <<>> =>
        /\ result = None
        /\ returned = <<>>
        /\ stats.checksum_errors = 1
        /\ stats.frames_received = 0
        /\ stats.last_seq = <<>>

\* the call that extracts the corrupted frame returns nothing, counts one
\* checksum error and leaves last_seq alone
RejectingCall ==
    (frame_data' = BadBytes /\ frame_data # BadBytes) =>
        /\ result' = None
        /\ returned' = returned
        /\ stats'.checksum_errors = stats.checksum_errors + 1
        /\ stats'.last_seq = stats.last_seq

\* C4 as stated (checksum sensitivity): for every single-bit flip in the
\* header (magic, seq or length) or the payload of a well-formed frame, the
\* receiver that has read the whole corrupted frame has returned nothing,
\* has counted exactly one checksum error and has left last_seq unchanged.
C4_AnyHeaderOrPayloadFlip == FlipAlone => RejectedAlone

\* C4 as amended: the same for every single-bit flip in the seq field or
\* the payload; also with last_seq set by an earlier frame, the call that
\* extracts the corrupted frame returns nothing, adds exactly one to
\* checksum_errors and leaves last_seq unchanged.
C4_SeqOrPayloadFlip ==
    /\ [](FlipAlone /\ FlipInSeqOrPayload => RejectedAlone)
    /\ [][sent.kind = "flip" /\ FlipInSeqOrPayload => RejectingCall]_vars

C4_Witness ==
    /\ FlipBetween
    /\ sent.byte = 3
    /\ path = "bad_checksum"
    /\ frame_data = BadBytes
    /\ stats.checksum_errors = 1
    /\ stats.last_seq = <<65534>>

\* C5 (sequence gap accounting): the call that accepts the n-th frame of a
\* stream of valid frames, with sequence number s, adds
\* (s - (p + 1)) mod 65536 to frames_dropped when last_seq = p is set and
\* nothing when it is unset, and sets last_seq to s.
C5_SequenceGap ==
    [][stats'.frames_received = stats.frames_received + 1 =>
          LET s == sent.frames[stats'.frames_received].seq
              gap == IF stats.last_seq = <<>> THEN 0
                     ELSE (s - (stats.last_seq[1] + 1)) % 65536
          IN  /\ stats'.last_seq = <<s>>
              /\ stats'.frames_dropped = stats.frames_dropped + gap
              /\ gap \in 0..65535]_vars

C5_Witness ==
    /\ sent.kind = "two"
    /\ sent.frames[1].seq = 5
    /\ sent.frames[2].seq = 9
    /\ stats.frames_received = 2
    /\ stats.last_seq = <<9>>
    /\ stats.frames_dropped = 3

\* C6 (partial-frame patience): while a valid frame has been read only in
\* part, receive_frame returns nothing; the call that reads the rest
\* returns its payload, the only one returned; no sync or checksum error
\* is counted; later calls return nothing more.
C6_PartialFrame ==
    [][CleanOne =>
          /\ (wire' # wire /\ wire' # <<>>) =>
                /\ result' = None
                /\ returned' = <<>>
                /\ NoErrors'
          /\ (wire' # wire /\ wire' = <<>>) =>
                /\ result' = Samples(frombuffer(TheFrame.payload))
                /\ returned' = <<TheFrame.payload>>
                /\ stats'.frames_received = 1
                /\ NoErrors'
          /\ (ser /\ wire = <<>>) =>
                /\ result' = None
                /\ returned' = returned]_vars

C6_Witness ==
    /\ CleanOne
    /\ TheFrame.payload = <<85, 170>>
    /\ Len(buffer) = 9
    /\ Len(wire) = 1
    /\ stats.bytes_received = 9
    /\ path = "short_frame"
    /\ result = None
    /\ returned = <<>>

\* backlog buf starts with a complete frame whose checksum matches and
\* whose payload length is even
FrameAvailable(buf) ==
    /\ Len(buf) >= FRAME_HEADER_SIZE + CHECKSUM_SIZE
    /\ buf[1] = 85 /\ buf[2] = 170
    /\ U16(buf, 5) % 2 = 0
    /\ LET n == FRAME_HEADER_SIZE + U16(buf, 5) + CHECKSUM_SIZE
       IN  /\ Len(buf) >= n
           /\ U16(buf, n - 1) = Sum(Take(buf, n - 2)) % 65536

\* C7 (drain to exhaustion): on a stream of valid frames, a receive_frame
\* call returns nothing only when the backlog it leaves holds no complete
\* valid frame, so that calling until None returns every frame delivered.
C7_DrainToExhaustion ==
    (/\ sent.kind = "two"
     /\ \A i \in 1..Len(sent.frames) : WellFormed(sent.frames[i])
     /\ path # "init"
     /\ result = None) => ~FrameAvailable(buffer)

\* C8 (a checksum error loses only the corrupted frame): in a stream of
\* valid frames with one frame corrupted, here in its payload, once all
\* bytes have been read and receive_frame has been called again and has
\* returned nothing, every uncorrupted frame has been returned.
C8_OnlyCorruptedFrameLost ==
    (FlipBetween /\ FlipInPayload /\ wire = <<>> /\ path = "no_data") =>
        returned = <<PrePayload, PostPayload>>

\* C9 as stated: in a stream of frames with contiguous sequence numbers in
\* which one frame has a corrupted payload, frames_dropped is never
\* increased on account of that frame: it stays 0.
C9_NoGapForCorruptedFrame ==
    (FlipBetween /\ FlipInPayload) => stats.frames_dropped = 0

\* C9 as amended: the call that fails the checksum changes neither
\* last_seq nor frames_dropped; the next frame accepted is checked against
\* the last_seq from before the corrupted frame, which adds exactly 1 to
\* frames_dropped for the corrupted frame.
C9_GapCountedByNextFrame ==
    /\ [][(FlipBetween /\ FlipInPayload
           /\ stats'.checksum_errors # stats.checksum_errors) =>
              /\ stats'.last_seq = stats.last_seq
              /\ stats'.frames_dropped = stats.frames_dropped
              /\ stats'.frames_received = stats.frames_received]_vars
    /\ [](FlipBetween /\ FlipInPayload =>
              /\ stats.checksum_errors <= 1
              /\ stats.frames_dropped =
                    IF stats.last_seq = <<sent.frames[3].seq>> THEN 1 ELSE 0
              /\ Len(returned) = 2 =>
                    /\ stats.checksum_errors = 1
                    /\ stats.last_seq = <<sent.frames[3].seq>>)

C9_Witness ==
    /\ FlipBetween
    /\ FlipInPayload
    /\ returned = <<PrePayload, PostPayload>>
    /\ stats.checksum_errors = 1
    /\ stats.frames_dropped = 1
    /\ stats.last_seq = <<0>>

\* C10 (odd payload length is an error value): once a complete frame with
\* a correct checksum and an odd length field has been read, receive_frame
\* has returned nothing without raising, the frame is counted as a
\* checksum error, and frames_received and last_seq are not advanced.
C10_OddLengthIsErrorValue ==
    (/\ sent.kind = "one"
     /\ sent.noise = <<>>
     /\ ~WellFormed(TheFrame)
     /\ wire = <<>>) =>
        /\ result = None
        /\ stats.checksum_errors = 1
        /\ stats.frames_received = 0
        /\ stats.last_seq = <<>>

\* a step that is a play() call
PlayStep == call'.plays = call.plays + 1

\* the stream told the last play() call that `available` frames can be
\* written
Told(c) == c.answer.asked /\ c.answer.ok

\* C11 (saturation drop): a play() call that the stream tells of room for
\* fewer than twice as many frames as the frame has samples returns False,
\* does not call stream.write() and adds exactly one to frames_dropped; told
\* of room for at least twice as many, it calls stream.write().
C11_SaturationDrop ==
    [][PlayStep =>
          /\ (Told(call') /\ call'.answer.available < 2 * Len(call'.frame)) =>
                /\ ~call'.played
                /\ call'.write = "not_called"
                /\ writes' = writes
                /\ player'.frames_dropped = player.frames_dropped + 1
          /\ (Told(call') /\ call'.answer.available >= 2 * Len(call'.frame)) =>
                /\ call'.write # "not_called"
                /\ writes' = writes + 1
                /\ call'.written = tobytes(call'.frame)]_vars

C11_Witness ==
    /\ player.stream
    /\ call.plays = 1
    /\ call.frame = <<-1>>
    /\ call.answer = Answer(1)
    /\ ~call.played
    /\ writes = 0
    /\ player.frames_dropped = 1

\* C12 (playback failures are counted): every play() call, in every state
\* of the player, returns True or False without raising; when it returns
\* False frames_dropped has grown by exactly one, and when it returns True
\* frames_dropped is unchanged.
C12_EveryDropCounted ==
    [][PlayStep =>
          /\ call'.played => player'.frames_dropped = player.frames_dropped
          /\ ~call'.played =>
                player'.frames_dropped = player.frames_dropped + 1]_vars

\* frame i of the stream is on the wire as the sender made it, with an
\* even payload length
Intact(i) == i # sent.bad /\ WellFormed(sent.frames[i])

\* the backlog holds the first bytes of frame i, but not all of them, and
\* nothing else
HoldsPrefixOf(i) ==
    /\ buffer # <<>>
    /\ Len(buffer) < WireSize(i)
    /\ buffer = Take(WireFrame(sent, i), Len(buffer))
    /\ Positions(wire, buffer) =
          (FrameStart(i) + 1)..(FrameStart(i) + Len(buffer))

\* a step in which flush_backlog() removes bytes from the backlog
FlushStep == flushed' # flushed

\* C13 (flush clears the backlog): when the backlog holds a proper prefix
\* of a valid frame and flush_backlog() is called, the backlog is empty
\* afterwards; in a one-frame stream every later receive_frame() call
\* returns nothing and the frame's payload is never returned, also once
\* the rest of the frame has been read; in any stream no more payloads
\* are returned than there are valid frames that lost no byte to a flush.
C13_FlushClearsBacklog ==
    /\ [][\A i \in 1..Len(sent.frames) :
              (Intact(i) /\ HoldsPrefixOf(i) /\ FlushStep) =>
                  /\ buffer' = <<>>
                  /\ i \in cut']_vars
    /\ [][(sent.kind = "one" /\ cut # {}) =>
              /\ result' = None
              /\ returned' = <<>>]_vars
    /\ [](Len(returned) <=
            Cardinality({i \in 1..Len(sent.frames) :
                            Intact(i) /\ i \notin cut}))

C13_Witness ==
    /\ sent.kind = "one"
    /\ sent.noise = <<85>>
    /\ TheFrame.payload = <<85, 170>>
    /\ cut = {1}
    /\ flushed = FRAME_HEADER_SIZE
    /\ wire = <<>>
    /\ stats.bytes_received = Len(Stream(sent))
    /\ buffer = <<85, 170, 5, 2>>
    /\ path = "short_header"
    /\ returned = <<>>

\* the loop of main() is running
InLoop == ser /\ player.stream /\ main.did # "raised"

\* C14 (latency-triggered flush): while the loop runs, whether or not
\* frames are being decoded, the latest latency measurement is never more
\* than a second old at the end of a pass; and every pass that measures a
\* latency above args.max_latency calls flush_backlog().
C14_LatencyTriggeredFlush ==
    /\ [](InLoop => now - main.measured_at <= 1)
    /\ [][(PlayStep /\ Greater(buffer_latency_ms', args.max_latency)) =>
              main'.did = "flush"]_vars

\* C15 (counter monotonicity): no step of the program, be it a
\* receive_frame() call, a play() call or a flush_backlog() call, makes
\* frames_received, frames_dropped, checksum_errors, sync_errors,
\* bytes_received or the player's frames_dropped smaller.
C15_CountersNeverDecrease ==
    [][/\ stats'.frames_received >= stats.frames_received
       /\ stats'.frames_dropped >= stats.frames_dropped
       /\ stats'.checksum_errors >= stats.checksum_errors
       /\ stats'.sync_errors >= stats.sync_errors
       /\ stats'.bytes_received >= stats.bytes_received
       /\ player'.frames_dropped >= player.frames_dropped]_vars

C15_Witness ==
    /\ sent.noise = <<0>>
    /\ main.did = "idle"
    /\ flushed > 0
    /\ wire = <<>>
    /\ stats.frames_received = 1
    /\ stats.sync_errors > 1
    /\ stats.bytes_received = Len(Stream(sent))
    /\ player.frames_dropped = 1

\* a step that is a flush_backlog() call: it removes bytes from the
\* backlog, or from the serial port without receiving them
FlushCall ==
    \/ FlushStep
    \/ wire' # wire /\ stats'.bytes_received = stats.bytes_received

\* C16 (frame effect of flush_backlog): a flush_backlog() call leaves the
\* backlog empty, whatever it held, and leaves last_seq and every counter
\* as they were; the frame accepted next is checked against that last_seq:
\* it adds (seq - (last_seq + 1)) mod 65536 to frames_dropped.  So when
\* frame 5 is accepted, frame 6 is flushed and frame 9 is accepted,
\* frames_dropped is 3.
C16_FlushFrameEffect ==
    /\ [][FlushCall => buffer' = <<>> /\ stats' = stats]_vars
    /\ [][stats'.frames_received = stats.frames_received + 1 =>
              LET s == U16(frame_data', 3)
                  gap == IF stats.last_seq = <<>> THEN 0
                         ELSE (s - (stats.last_seq[1] + 1)) % 65536
              IN  /\ stats'.last_seq = <<s>>
                  /\ stats'.frames_dropped = stats.frames_dropped + gap]_vars
    /\ []((/\ sent.kind = "three"
           /\ 2 \in cut
           /\ stats.frames_received = 2
           /\ stats.last_seq = <<9>>) => stats.frames_dropped = 3)

C16_Witness ==
    /\ sent.kind = "three"
    /\ sent.bad = 0
    /\ cut = {2}
    /\ flushed = 1
    /\ path = "frame"
    /\ stats.frames_received = 2
    /\ stats.last_seq = <<9>>
    /\ stats.frames_dropped = 3

\* the bytes a receive_frame() step reads from the port
Chunk == Take(wire, Len(wire) - Len(wire'))

\* b starts with the magic
StartsWithMagic(b) == Len(b) >= 2 /\ U16(b, 1) = FRAME_MAGIC

\* b starts with the magic and is shorter than a header, or shorter than
\* the frame its header announces
Waiting(b) ==
    /\ StartsWithMagic(b)
    /\ \/ Len(b) < 6
       \/ Len(b) < 6 + U16(b, 5) + 2

\* C17 (waiting does not consume): when the backlog, with the bytes the
\* call has just read, starts with the magic but holds fewer than 6 bytes,
\* or fewer than 6 + length + 2 bytes, receive_frame() returns nothing and
\* leaves these bytes in the backlog, and last_seq and every counter but
\* bytes_received as they were; when the sync search finds no magic in the
\* backlog, nothing is returned and at most 1 byte is kept.
C17_WaitingDoesNotConsume ==
    [][ser' = ser =>
          LET b == buffer \o Chunk
              searched == ~ser \/ Chunk # <<>>
          IN  /\ Waiting(b) =>
                    /\ result' = None
                    /\ buffer' = b
                    /\ stats' = [stats EXCEPT
                                    !.bytes_received = @ + Len(Chunk)]
                    /\ returned' = returned
              /\ (searched /\ NoMagic(b)) =>
                    /\ result' = None
                    /\ Len(buffer') <= 1
                    /\ stats'.sync_errors =
                          stats.sync_errors + Len(b) - Len(buffer')
                    /\ stats'.last_seq = stats.last_seq]_vars

C17_Witness ==
    /\ sent.kind = "one"
    /\ sent.noise = <<0>>
    /\ path = "short_frame"
    /\ buffer = <<85, 170, 9, 0, 2, 0, 85>>
    /\ stats.bytes_received = 8
    /\ stats.sync_errors = 1
    /\ stats.last_seq = <<>>
    /\ result = None

\* C18 (byte conservation): in every reachable state bytes_received equals
\* the backlog length plus sync_errors plus the total size of the
\* frame-sized runs removed by extraction (good or bad checksum) plus the
\* bytes flush_backlog() discarded from the backlog (the bytes it discards
\* in the serial port were never read, so they are in no counter).
C18_ByteConservation ==
    /\ stats.bytes_received =
          Len(buffer) + stats.sync_errors + extracted + flushed
    /\ stats.sync_errors >= 0
    /\ extracted >= 0
    /\ flushed >= 0

C18_Witness ==
    /\ sent.kind = "three"
    /\ sent.bad = 2
    /\ flushed > 0
    /\ extracted > 0
    /\ stats.sync_errors > 0
    /\ stats.checksum_errors > 0
    /\ stats.frames_received > 0
    /\ buffer # <<>>

\* the largest estimate of a player: estimated_total frames, in ms
Ceiling(p) == Ratio(estimated_total * 1000, p.sample_rate)

\* a <= b for quotients of one denominator
AtMost(a, b) == a.den = b.den /\ a.num <= b.num

\* C19 (the latency estimate is bounded): whatever availability the stream
\* reports, the queued frame count is max(0, 240 - available) and lies in
\* 0..240; the estimate is 0 when the stream is absent or the query fails
\* and never above 240 * 1000 / sample_rate ms, which is exactly 5.0 ms at
\* 48000 Hz; so with the default rate and the default threshold of 5.0 ms
\* no measurement of the loop is above the threshold and no pass of the
\* loop calls flush_backlog().
C19_LatencyEstimateBounded ==
    /\ \A answer \in Answers \cup LoopAnswers :
          LET q == Queued(answer.available)
              stopped == get_buffer_latency_ms(
                             [player EXCEPT !.stream = FALSE], answer)
              started == get_buffer_latency_ms(
                             [player EXCEPT !.stream = TRUE], answer)
          IN  /\ q \in 0..estimated_total
              /\ q >= estimated_total - answer.available
              /\ q = 0 \/ q = estimated_total - answer.available
              /\ stopped = Zero
              /\ ~answer.ok => started = Zero
              /\ answer.ok => started = Ratio(q * 1000, player.sample_rate)
              /\ started = Zero \/ AtMost(started, Ceiling(player))
    /\ buffer_latency_ms.num >= 0
    /\ buffer_latency_ms.den > 0
    /\ \/ buffer_latency_ms = Zero
       \/ AtMost(buffer_latency_ms, Ceiling(player))
    /\ player.sample_rate = args.rate
    /\ args = DefaultArgs =>
          /\ ~Greater(Ceiling(player), args.max_latency)
          /\ ~Greater(args.max_latency, Ceiling(player))
          /\ ~Greater(buffer_latency_ms, args.max_latency)
          /\ main.did # "flush"
          /\ flushed = 0
          /\ cut = {}

C19_Witness ==
    /\ args = DefaultArgs
    /\ player.stream
    /\ buffer_latency_ms = Ratio(estimated_total * 1000, DefaultRate)
    /\ main.did = "stats"
    /\ main.measured_at = now
    /\ stats.frames_received = 2
    /\ flushed = 0

\* C20 (every decoded frame is submitted exactly once): at the end of every
\* pass of the loop of main(), the player started, the frames the
\* receiver has decoded are the frames played plus the frames the player
\* dropped, and play() has been called once for each of them, with the
\* samples of the frame decoded in that pass.
C20_EveryFrameSubmittedOnce ==
    /\ [](InLoop =>
            /\ stats.frames_received =
                  main.frame_count + player.frames_dropped
            /\ call.plays = stats.frames_received
            /\ writes >= main.frame_count)
    /\ [][InLoop' =>
            IF stats'.frames_received = stats.frames_received + 1
            THEN /\ call'.plays = call.plays + 1
                 /\ call'.frame = result'.samples
                 /\ \/ /\ main'.frame_count = main.frame_count + 1
                       /\ player'.frames_dropped = player.frames_dropped
                       /\ writes' = writes + 1
                       /\ call'.played
                       /\ call'.written = tobytes(result'.samples)
                    \/ /\ main'.frame_count = main.frame_count
                       /\ player'.frames_dropped =
                             player.frames_dropped + 1
                       /\ ~call'.played
            ELSE /\ call' = call
                 /\ main'.frame_count = main.frame_count
                 /\ player'.frames_dropped = player.frames_dropped
                 /\ writes' = writes]_vars

C20_Witness ==
    /\ InLoop
    /\ sent.kind = "two"
    /\ sent.bad = 0
    /\ stats.frames_received = 2
    /\ main.frame_count = 1
    /\ player.frames_dropped = 1
    /\ call.plays = 2
    /\ stats.frames_dropped = 3

====
